---- MODULE Spec2Model ----
(***************************************************************************)
(* Model of the scanex dependency discovery engine: input validation,      *)
(* project root detection, alias configuration loading, the                *)
(* .gitignore-aware walker of lib/core.js and the BFS over imports of      *)
(* bin/scanex.js.                                                          *)
(*                                                                         *)
(* A path is a sequence of segments (the absolute path from "/"); a        *)
(* segment is the sequence of its dot-separated parts, so that "a.js" is   *)
(* <<"a","js">> and ".git" is <<"","git">>.                                 *)
(***************************************************************************)
EXTENDS Naturals, Sequences, FiniteSets

(* ------------------------------------------------------------------ *)
(* Bounds                                                             *)
(* ------------------------------------------------------------------ *)
MaxInputs == 2

(* ------------------------------------------------------------------ *)
(* The filesystem universe                                            *)
(* ------------------------------------------------------------------ *)
DotGit       == <<"", "git">>
DotGitignore == <<"", "gitignore">>
DotDot       == <<"..">>

dirW     == << <<"w">> >>
dirP     == << <<"w">>, <<"p">> >>
dirGit   == << <<"w">>, <<"p">>, DotGit >>
dirBuild == << <<"w">>, <<"p">>, <<"build">> >>
fileA    == << <<"w">>, <<"p">>, <<"a", "js">> >>
fileB    == << <<"w">>, <<"p">>, <<"b", "js">> >>
fileT    == << <<"w">>, <<"p">>, <<"t", "txt">> >>
fileC    == << <<"w">>, <<"p">>, <<"build">>, <<"c", "js">> >>
fileM    == << <<"w">>, <<"p">>, <<"m", "js">> >>
fileIgn  == << <<"w">>, <<"p">>, DotGitignore >>

Root == << >>

AppDirs == {Root, dirW, dirP, dirGit, dirBuild}

SourceFiles == {fileA, fileB, fileC}

(* a monorepo below /w/p: two packages with a dist directory each, and a *)
(* directory whose name is written with regular expression characters   *)
GroupName  == <<"(g)">>
dirPk      == << <<"w">>, <<"p">>, <<"packages">> >>
dirFoo     == Append(dirPk, <<"foo">>)
dirBar     == Append(dirPk, <<"bar">>)
dirGrp     == Append(dirPk, GroupName)
dirFooDist == Append(dirFoo, <<"dist">>)
dirBarDist == Append(dirBar, <<"dist">>)
dirGrpDist == Append(dirGrp, <<"dist">>)
fooZ       == Append(dirFooDist, <<"z", "js">>)
barZ       == Append(dirBarDist, <<"z", "js">>)
grpZ       == Append(dirGrpDist, <<"z", "js">>)

MonoDirs == AppDirs \cup {dirPk, dirFoo, dirBar, dirGrp, dirFooDist, dirBarDist, dirGrpDist}

MonoFiles == {fileA, fileC, fooZ, barZ, grpZ}

(* the two orders in which a directory listing may come back *)
AllNames ==
  << GroupName, DotGit, DotGitignore, <<"Gemfile">>, <<"a", "js">>, <<"a", "rb">>,
     <<"app">>, <<"b", "js">>, <<"bar">>, <<"build">>, <<"c", "js">>, <<"dist">>,
     <<"foo">>, <<"foo", "py">>, <<"foo", "rb">>, <<"foo", "sql">>,
     <<"jsconfig", "json">>, <<"lib">>, <<"m", "py">>, <<"p">>, <<"package", "json">>,
     <<"packages">>, <<"pkg">>, <<"s">>, <<"src">>, <<"sub">>, <<"t", "txt">>,
     <<"tsconfig", "json">>, <<"util", "py">>, <<"w">>, <<"z", "js">> >>

Reverse(s) == [k \in 1..Len(s) |-> s[Len(s) + 1 - k]]

ListingOrders == { AllNames, Reverse(AllNames) }

(* ------------------------------------------------------------------ *)
(* Specifiers returned by scan, and what a file may contain           *)
(* ------------------------------------------------------------------ *)
RelSpec(up, segs) == [kind |-> "rel", up |-> up, segs |-> segs]
BareSpec          == [kind |-> "bare", up |-> 0, segs |-> << >>]

SpecB    == RelSpec(0, << <<"b">> >>)               \* './b'
SpecA    == RelSpec(0, << <<"a">> >>)               \* './a'
SpecC    == RelSpec(0, << <<"build">>, <<"c">> >>)  \* './build/c'
SpecUpB  == RelSpec(1, << <<"b">> >>)               \* '../b'
SpecNone == RelSpec(0, << <<"n">> >>)               \* './n', no such file

(* { type: 'require', value: 'foo' }, as the Ruby scanner returns it *)
RequireFoo == [kind |-> "require", up |-> 0, segs |-> << <<"foo">> >>]

(* '@/b', a string that opens with the alias of the path mapping *)
AliasB == [kind |-> "bare", up |-> 0, segs |-> << <<"@">>, <<"b">> >>]

(* typeof spec === 'string' *)
(* a Python module name with leading dots, as in from ..util import x *)
PyRel(dots, module) == [kind |-> "pyrel", up |-> dots, segs |-> << module >>]

isString(spec) == spec.kind \in {"rel", "bare", "pyrel"}

ContentsOf(f) ==
  IF f = fileA THEN { << >>, <<SpecB>>, <<BareSpec, SpecB>>, <<SpecNone, SpecC>> }
  ELSE IF f = fileB THEN { << >>, <<SpecA>> }
  ELSE { <<SpecUpB>> }

(* one line of a .gitignore file, without wildcards *)
Line(name, isDir, rooted) == [name |-> name, isDir |-> isDir, rooted |-> rooted]

GitignoreFiles ==
  { << >>,
    << Line(<<"build">>, TRUE, FALSE) >> }

(* the exclude option: a word searched anywhere, or anchored with ^ *)
NoExclude == [word |-> "node_modules", anchored |-> FALSE]
Excludes ==
  { NoExclude,
    [word |-> "build", anchored |-> FALSE],
    [word |-> "build", anchored |-> TRUE] }

(* what a plug-in's resolve may do with a specifier *)
None     == [tag |-> "null",  path |-> << >>]
Throws   == [tag |-> "throw", path |-> << >>]
Some(p)  == [tag |-> "path",  path |-> p]

(* a registered plug-in whose resolve is modelled from its code; a member *)
(* of resolvers that is None, Some(p) or Throws stands for a plug-in that *)
(* gives this answer to every specifier                                   *)
Plugin(name) == [tag |-> name, path |-> << >>]

(* aliasConfig: null, or the object parsed from the config file "from";  *)
(* paths tells whether it has compilerOptions.paths                      *)
Null == [loaded |-> FALSE, from |-> << >>, paths |-> FALSE]
Config(from, paths) == [loaded |-> TRUE, from |-> from, paths |-> paths]

ResolverBehaviours ==
  { <<r1, r2>> : r1 \in {None, Some(fileT), Throws},
                 r2 \in {None, Some(fileC), Some(dirBuild)} }

InputCandidates == {dirP, fileC, fileM}

RECURSIVE SeqsUpTo(_, _)
SeqsUpTo(S, n) ==
  IF n = 0 THEN { << >> }
  ELSE LET shorter == SeqsUpTo(S, n - 1)
       IN shorter \cup { Append(s, x) : s \in { t \in shorter : Len(t) = n - 1 }, x \in S }

VARIABLES
  dirs,         \* the directories of the filesystem
  files,        \* its regular files, other than .gitignore and config files
  denied,       \* directories whose readdirSync throws
  listing,      \* order of readdirSync results
  content,      \* file -> specifiers its scanner extracts
  unreadable,   \* files whose readFileSync throws
  gitignore,    \* directory -> lines of its .gitignore file
  configs,      \* tsconfig.json / jsconfig.json path -> form of its text
  exclude,      \* opts.exclude
  deps,         \* opts.deps (FALSE with --no-deps)
  resolvers,    \* the registered resolve functions, in load order
  registry,     \* the extension list a lookup is made in, in load order
  INPUTS,       \* resolved input paths
  projectRoot,
  aliasConfig,
  configBasePath,
  queue,
  visited,
  i,            \* index of the BFS loop (1-based)
  pc,           \* position of the script
  seeds,        \* history: the queue as the walker seeded it
  scans,        \* history: sequence of files handed to scanner.scan
  resolutions,  \* history: resolutions made by the last loop iteration
  bundled,      \* set of files written to the output document
  tree,         \* the lines of the directory tree of the output document
  touched,      \* history: the paths the walker has handed to statSync
  ext,          \* the result of an extension lookup
  mode,         \* who runs: the command-line script or an operation of the server
  cliVisited,   \* history: the visited set of the completed command-line run
  dependencies  \* the list scan_dependencies reports

env == <<dirs, files, denied, listing, content, unreadable, gitignore, configs,
         exclude, deps, resolvers, registry, INPUTS>>

(* the state of the server operations, and the result of a lookup *)
rpc == <<mode, cliVisited, dependencies>>

vars == <<env, projectRoot, aliasConfig, configBasePath,
          queue, visited, i, pc, seeds, scans, resolutions, bundled,
          tree, touched, ext, rpc>>

(* ------------------------------------------------------------------ *)
(* node:path and node:fs                                              *)
(* ------------------------------------------------------------------ *)
Dirs == dirs

Files == files \cup { Append(d, DotGitignore) : d \in DOMAIN gitignore } \cup DOMAIN configs

existsSync(p) == p \in Dirs \cup Files

isFile(p) == p \in Files

isDirectory(p) == p \in Dirs

dirname(p) == IF p = << >> THEN << >> ELSE SubSeq(p, 1, Len(p) - 1)

IsPrefix(a, b) == Len(a) <= Len(b) /\ SubSeq(b, 1, Len(a)) = a

RECURSIVE CommonLen(_, _)
CommonLen(a, b) ==
  IF a = << >> \/ b = << >> \/ Head(a) # Head(b) THEN 0
  ELSE 1 + CommonLen(Tail(a), Tail(b))

(* path.relative(from, to): ".." for every segment of from left of the *)
(* common prefix, then the rest of to                                  *)
relative(from, to) ==
  LET c == CommonLen(from, to)
  IN [k \in 1..(Len(from) - c) |-> DotDot] \o SubSeq(to, c + 1, Len(to))

(* path.resolve(dir, specValue) for a relative specifier *)
resolve(dir, spec) ==
  SubSeq(dir, 1, IF spec.up >= Len(dir) THEN 0 ELSE Len(dir) - spec.up) \o spec.segs

RECURSIVE Filter(_, _)
Filter(s, S) ==
  IF s = << >> THEN << >>
  ELSE IF Head(s) \in S THEN <<Head(s)>> \o Filter(Tail(s), S)
  ELSE Filter(Tail(s), S)

(* the entries of directory p, in the order the listing delivers them *)
readdirSync(p, order) ==
  Filter(order, { n \in { order[k] : k \in 1..Len(order) } :
                    existsSync(Append(p, n)) })

(* ------------------------------------------------------------------ *)
(* Plug-in registry: extensions as split on ".", so ".js" is <<"","js">> *)
(* ------------------------------------------------------------------ *)
ALL_EXT == << <<"", "js">>, <<"", "ts">>, <<"", "py">>, <<"", "rb">>, <<"", "sql">> >>

Last(s) == s[Len(s)]

(* String.prototype.endsWith on the last segment of a path *)
endsWith(p, e) ==
  /\ p # << >>
  /\ LET n == Last(p)
     IN /\ Len(n) >= Len(e)
        /\ SubSeq(n, Len(n) - Len(e) + 2, Len(n)) = Tail(e)
        /\ (Head(e) = "" \/ n[Len(n) - Len(e) + 1] = Head(e))

(* base + e for a dotted extension e *)
plusExt(p, e) == SubSeq(p, 1, Len(p) - 1) \o << Last(p) \o Tail(e) >>

extname(p) ==
  IF p = << >> THEN << >>
  ELSE LET n == Last(p)
       IN IF Len(n) >= 2 /\ ~(Len(n) = 2 /\ n[1] = "") THEN <<"", Last(n)>> ELSE << >>

Includes(s, x) == \E k \in 1..Len(s) : s[k] = x

(* for (const ext of allExtensions) if (filepath.endsWith(ext)) return ext *)
RECURSIVE FirstExtFrom(_, _, _)
FirstExtFrom(p, allExtensions, k) ==
  IF k > Len(allExtensions) THEN extname(p)
  ELSE IF endsWith(p, allExtensions[k]) THEN allExtensions[k]
  ELSE FirstExtFrom(p, allExtensions, k + 1)

DOCKERFILE == <<"Dockerfile">>

(* getFileExtension(filepath, allExtensions): Dockerfile and Dockerfile.* *)
(* first, then the first extension of the list the path ends with         *)
getFileExtensionIn(p, allExtensions) ==
  IF p # << >> /\ Head(Last(p)) = "Dockerfile" /\ Includes(allExtensions, DOCKERFILE)
  THEN DOCKERFILE
  ELSE FirstExtFrom(p, allExtensions, 1)

getFileExtension(p) == getFileExtensionIn(p, ALL_EXT)

(* ALL_EXT.includes(getFileExtension(f, ALL_EXT)); scanners has the same keys *)
hasScanner(f) == Includes(ALL_EXT, getFileExtension(f))

(* ------------------------------------------------------------------ *)
(* Ignore matcher                                                     *)
(* ------------------------------------------------------------------ *)
AbsStr(p) == [abs |-> TRUE,  segs |-> p]
RelStr(p) == [abs |-> FALSE, segs |-> p]

(* IGNORE.test(str): the word is searched anywhere in the string; with ^ *)
(* it has to open the string, which an absolute path opens with "/"     *)
IGNORE_test(str) ==
  IF exclude.anchored
  THEN ~str.abs /\ str.segs # << >> /\ Head(Head(str.segs)) = exclude.word
  ELSE \E k \in 1..Len(str.segs) :
         \E j \in 1..Len(str.segs[k]) : str.segs[k][j] = exclude.word

gitignoreLines(dirPath) ==
  IF dirPath \in DOMAIN gitignore THEN gitignore[dirPath] ELSE << >>

parseGitignoreInDir(dirPath, root) ==
  LET lines == gitignoreLines(dirPath)
      relativeDir == relative(root, dirPath)
  IN [k \in 1..Len(lines) |->
        [dir |-> relativeDir, name |-> lines[k].name,
         isDir |-> lines[k].isDir, rooted |-> lines[k].rooted]]

(* relativeDir goes into the regular expression as it is, while the line *)
(* itself is escaped: a directory name is read as an expression, and the *)
(* name "(g)" read so is a group that matches the text "g"               *)
unescaped(seg) == IF seg = GroupName THEN <<"g">> ELSE seg

regexPrefix(reDir, rel) ==
  /\ Len(reDir) <= Len(rel)
  /\ \A k \in 1..Len(reDir) : rel[k] = unescaped(reDir[k])

(* patternObj.pattern.test(relativePath) for the regular expression that *)
(* parseGitignoreInDir builds from a wildcard-free line                  *)
patternTest(rule, rel) ==
  LET L == Len(rule.dir)
  IN /\ regexPrefix(rule.dir, rel)
     /\ IF rule.rooted
        THEN /\ Len(rel) > L
             /\ rel[L + 1] = rule.name
             /\ (Len(rel) = L + 1 \/ rule.isDir)
        ELSE \E k \in (L + 1)..Len(rel) :
               rel[k] = rule.name /\ (k = Len(rel) \/ rule.isDir)

isIgnored(path, gitignorePatterns, root) ==
  LET relativePath == relative(root, path)
  IN \/ IGNORE_test(RelStr(relativePath))
     \/ \E k \in 1..Len(gitignorePatterns) :
          patternTest(gitignorePatterns[k], relativePath)

(* ------------------------------------------------------------------ *)
(* Filesystem walker                                                  *)
(* ------------------------------------------------------------------ *)
(* what a call of dive leaves behind: the files it pushed, and whether *)
(* an exception left it                                               *)
Returned(fs) == [files |-> fs, threw |-> FALSE]

(* variant: the exception of readdirSync is not caught *)
rethrowReaddir(fs) == [files |-> fs, threw |-> TRUE]

(* try { for (const c of readdirSync(p)) ... } catch (e) { console.warn(..) } *)
catchReaddir(fs) == Returned(fs)

(* variant: a file given as the root goes through the ignore check too *)
pushFileChecked(p, gitignorePatterns, root) ==
  IF isIgnored(p, gitignorePatterns, root) THEN << >> ELSE <<p>>

(* if (st.isFile()) { files.push(p); return; } *)
pushFile(p, gitignorePatterns, root) == <<p>>

(* the result of a dive together with the paths it handed to statSync *)
With(r, stats) == [files |-> r.files, threw |-> r.threw, stats |-> stats]

(* variant: every directory is entered and only files are checked *)
descendDirs(n, allPatterns, root) ==
  isDirectory(n) \/ ~isIgnored(n, allPatterns, root)

(* if (!isIgnored(n, allPatterns)) dive(n, allPatterns) *)
descend(n, allPatterns, root) == ~isIgnored(n, allPatterns, root)

RECURSIVE dive(_, _, _, _), diveChildren(_, _, _, _, _)
dive(p, parentGitignorePatterns, root, order) ==
  IF ~existsSync(p) THEN With(Returned(<< >>), {p})
  ELSE IF isFile(p) THEN With(Returned(pushFile(p, parentGitignorePatterns, root)), {p})
  ELSE LET allPatterns == parentGitignorePatterns \o parseGitignoreInDir(p, root)
       IN IF p \in denied THEN With(catchReaddir(<< >>), {p})
          ELSE LET inner == diveChildren(p, readdirSync(p, order), allPatterns, root, order)
               IN With(inner, inner.stats \cup {p})

diveChildren(p, cs, allPatterns, root, order) ==
  IF cs = << >> THEN With(Returned(<< >>), {})
  ELSE LET n == Append(p, Head(cs))
           first == IF descend(n, allPatterns, root)
                    THEN dive(n, allPatterns, root, order) ELSE With(Returned(<< >>), {})
       IN IF first.threw THEN With(catchReaddir(first.files), first.stats)
          ELSE LET rest == diveChildren(p, Tail(cs), allPatterns, root, order)
               IN [files |-> first.files \o rest.files, threw |-> rest.threw,
                   stats |-> first.stats \cup rest.stats]

walk(start, root, order) == dive(start, << >>, root, order).files

(* an exception that leaves dive leaves walk, and the script with it *)
walkThrows(start, root, order) == dive(start, << >>, root, order).threw

(* the paths on which dive was called: each is handed to statSync, and a *)
(* directory among them has its .gitignore and its listing read          *)
walkStats(start, root, order) == dive(start, << >>, root, order).stats

(* ------------------------------------------------------------------ *)
(* Project root                                                       *)
(* ------------------------------------------------------------------ *)
isRepositoryRoot(dir) == existsSync(Append(dir, DotGit))

projectMarkers == { <<"package", "json">>, <<"Gemfile">> }

isProjectRoot(dir) == \E m \in projectMarkers : existsSync(Append(dir, m))

(* the upward loop; repo and proj are "found" flags with their directory *)
RECURSIVE searchUp(_, _)
searchUp(currentDir, foundProjectRoot) ==
  IF currentDir = dirname(currentDir) THEN [repo |-> None, proj |-> foundProjectRoot]
  ELSE LET proj == IF isProjectRoot(currentDir) /\ foundProjectRoot = None
                   THEN Some(currentDir) ELSE foundProjectRoot
       IN IF isRepositoryRoot(currentDir)
          THEN [repo |-> Some(currentDir), proj |-> proj]
          ELSE searchUp(dirname(currentDir), proj)

(* variant: the nearest manifest directory is preferred to the repository root *)
findProjectRootNearest(startPath) ==
  LET originalProjectRoot ==
        IF existsSync(startPath) /\ isFile(startPath) THEN dirname(startPath) ELSE startPath
      found == searchUp(originalProjectRoot, None)
  IN IF found.proj # None THEN found.proj.path
     ELSE IF found.repo # None THEN found.repo.path
     ELSE originalProjectRoot

findProjectRoot(startPath) ==
  LET originalProjectRoot ==
        IF existsSync(startPath) /\ isFile(startPath) THEN dirname(startPath) ELSE startPath
      found == searchUp(originalProjectRoot, None)
  IN IF found.repo # None THEN found.repo.path
     ELSE IF found.proj # None THEN found.proj.path
     ELSE originalProjectRoot

(* ------------------------------------------------------------------ *)
(* Alias configuration                                                *)
(* ------------------------------------------------------------------ *)
TSCONFIG == <<"tsconfig", "json">>
JSCONFIG == <<"jsconfig", "json">>

(* the forms a config text may have: valid JSON; JSON with comments or   *)
(* trailing commas; text of which only a flat compilerOptions object can *)
(* be cut out; text of which nothing can be parsed                       *)
ConfigForms == {"json", "jsonc", "options", "garbage"}

(* readFileSync(path, 'utf8') of a config file *)
textOf(path) == [form |-> configs[path], file |-> path]

(* JSON.parse as it is, then after the clean-up, then of the text matched *)
(* by /"compilerOptions"\s*:\s*({[^}]*})/, which ends at the first "}" and *)
(* so never holds a paths object; null when all three fail                *)
parseConfigFile(text) ==
  CASE text.form = "json"    -> Config(text.file, TRUE)
    [] text.form = "jsonc"   -> Config(text.file, TRUE)
    [] text.form = "options" -> Config(text.file, FALSE)
    [] OTHER                 -> Null

(* try { aliasConfig = parseConfigFile(readFileSync(path)) } catch (e) {} *)
readConfig(path) ==
  IF path \in unreadable THEN Null ELSE parseConfigFile(textOf(path))

RECURSIVE nearestFrom(_, _)
nearestFrom(currentDir, root) ==
  IF ~IsPrefix(root, currentDir) THEN None
  ELSE IF existsSync(Append(currentDir, TSCONFIG)) THEN Some(Append(currentDir, TSCONFIG))
  ELSE IF existsSync(Append(currentDir, JSCONFIG)) THEN Some(Append(currentDir, JSCONFIG))
  ELSE IF dirname(currentDir) = currentDir THEN None
  ELSE nearestFrom(dirname(currentDir), root)

findNearestConfig(startPath, root) == nearestFrom(dirname(startPath), root)

(* the config nearest to INPUTS[0], looked for when that is a file *)
nearestConfig(root) ==
  IF INPUTS[1] # root /\ existsSync(INPUTS[1]) /\ isFile(INPUTS[1])
  THEN findNearestConfig(INPUTS[1], root)
  ELSE None

(* Fallback: look in project root *)
rootConfig(root) ==
  IF existsSync(Append(root, TSCONFIG)) THEN readConfig(Append(root, TSCONFIG))
  ELSE IF existsSync(Append(root, JSCONFIG)) THEN readConfig(Append(root, JSCONFIG))
  ELSE Null

(* aliasConfig and configBasePath as the script leaves them *)
loadAliasConfig(root) ==
  LET config  == nearestConfig(root)
      nearest == IF config # None THEN readConfig(config.path) ELSE Null
  IN [aliasConfig    |-> IF nearest # Null THEN nearest ELSE rootConfig(root),
      configBasePath |-> IF config # None THEN dirname(config.path) ELSE root]

(* ------------------------------------------------------------------ *)
(* Resolution of one specifier                                        *)
(* ------------------------------------------------------------------ *)
(* ALL_EXT.map(e => base.endsWith(e) ? base : base + e).find(existsSync) *)
RECURSIVE findExisting(_, _)
findExisting(base, k) ==
  IF k > Len(ALL_EXT) THEN None
  ELSE LET cand == IF endsWith(base, ALL_EXT[k]) THEN base ELSE plusExt(base, ALL_EXT[k])
       IN IF existsSync(cand) THEN Some(cand) ELSE findExisting(base, k + 1)

(* '..util' as the single path segment that resolve(dir, '..util') makes of it *)
dottedName(spec) == [k \in 1..spec.up |-> ""] \o Head(spec.segs)

relativeFastPath(file, spec) ==
  IF spec.kind = "rel" THEN findExisting(resolve(dirname(file), spec), 1)
  ELSE IF spec.kind = "pyrel"
  THEN findExisting(Append(dirname(file), dottedName(spec)), 1)
  ELSE None

(* the first of the candidate paths that exists, or null *)
RECURSIVE firstExisting(_)
firstExisting(cands) ==
  IF cands = << >> THEN None
  ELSE IF existsSync(Head(cands)) THEN Some(Head(cands))
  ELSE firstExisting(Tail(cands))

RB  == <<"", "rb">>
SQL == <<"", "sql">>
PY  == <<"", "py">>

withExt(p, e) == IF endsWith(p, e) THEN p ELSE plusExt(p, e)

(* ruby: only tagged specifiers; require looks in <projectRoot>/lib *)
rubyResolve(file, spec) ==
  IF isString(spec) THEN None
  ELSE IF spec.kind = "require"
  THEN firstExisting(<< projectRoot \o << <<"lib">> >> \o withExt(spec.segs, RB) >>)
  ELSE None

(* sql: a string has no value and gives null; the value of any tagged     *)
(* specifier is tried with the SQL extensions beside the file and in the *)
(* project root                                                          *)
sqlResolve(file, spec) ==
  IF isString(spec) THEN None
  ELSE LET fileName == IF Len(Last(spec.segs)) > 1 THEN spec.segs
                       ELSE plusExt(spec.segs, SQL)
       IN firstExisting(<< dirname(file) \o fileName, projectRoot \o fileName >>)

(* module path a.b -> a/b *)
RECURSIVE dotsToSlashes(_)
dotsToSlashes(segs) ==
  IF segs = << >> THEN << >>
  ELSE [k \in 1..Len(Head(segs)) |-> << Head(segs)[k] >>] \o dotsToSlashes(Tail(segs))

INIT_PY == <<"__init__", "py">>

(* basePath.py, then basePath/__init__.py, inside the project only *)
tryResolveModule(basePath) ==
  IF ~IsPrefix(projectRoot, basePath) THEN None
  ELSE firstExisting(<< plusExt(basePath, PY), Append(basePath, INIT_PY) >>)

RECURSIVE upDirs(_, _)
upDirs(dir, n) == IF n <= 0 THEN dir ELSE upDirs(dirname(dir), n - 1)

(* variant: every leading dot is counted *)
levelsCounted(spec) == IF spec.kind = "pyrel" THEN spec.up ELSE 1

(* (spec.match(/^\./g) || []).length: the pattern is anchored, so it     *)
(* matches the first dot and no further one                              *)
levels(spec) == 1

(* the leading dots are dropped, the others become "/" *)
resolveRelativeImport(file, spec) ==
  LET targetDir  == upDirs(dirname(file), levels(spec) - 1)
      modulePath == dotsToSlashes(spec.segs)
  IN IF modulePath = << >> THEN None
     ELSE tryResolveModule(targetDir \o modulePath)

resolveAbsoluteImport(file, spec) ==
  LET modulePath == dotsToSlashes(spec.segs)
      sourceDirs == << projectRoot,
                       Append(projectRoot, <<"src">>),
                       Append(projectRoot, <<"backend">>),
                       Append(projectRoot, <<"app">>),
                       dirname(file) >>
      tried == [k \in 1..Len(sourceDirs) |->
                  IF IsPrefix(projectRoot, sourceDirs[k])
                  THEN tryResolveModule(sourceDirs[k] \o modulePath) ELSE None]
      found == { k \in 1..Len(tried) : tried[k] # None }
  IN IF found = {} THEN None
     ELSE tried[CHOOSE k \in found : \A j \in found : k <= j]

(* python: the value of a string or of a tagged specifier; a value that  *)
(* opens with a dot is a relative import                                 *)
pythonResolve(file, spec) ==
  IF spec.kind \in {"rel", "pyrel"} THEN resolveRelativeImport(file, spec)
  ELSE resolveAbsoluteImport(file, spec)

(* python, first release: spec.replace is no function of a tagged specifier *)
pythonResolveV1(file, spec) ==
  IF ~isString(spec) THEN Throws
  ELSE firstExisting(<< plusExt(dirname(file) \o dotsToSlashes(spec.segs), PY) >>)

(* variant: aliasConfig.compilerOptions.paths read without the ?. guards *)
pathsOfUnguarded(cfg) ==
  IF cfg = Null THEN "TypeError" ELSE IF cfg.paths THEN "paths" ELSE "undefined"

(* aliasConfig?.compilerOptions?.paths *)
pathsOf(cfg) == IF cfg # Null /\ cfg.paths THEN "paths" ELSE "undefined"

(* javascript: the one mapping "@/*": ["src/*"], taken from configBasePath *)
javascriptResolve(file, spec) ==
  LET paths == pathsOf(aliasConfig)
  IN IF paths = "TypeError" THEN Throws
     ELSE IF paths = "undefined" THEN None
     ELSE IF spec.segs # << >> /\ Head(spec.segs) = <<"@">>
     THEN LET resolveBasePath == IF configBasePath # << >> THEN configBasePath
                                 ELSE projectRoot
              resolvedPath == resolveBasePath \o << <<"src">> >> \o Tail(spec.segs)
          IN firstExisting([k \in 1..Len(ALL_EXT) |-> plusExt(resolvedPath, ALL_EXT[k])])
     ELSE None

(* r.resolve?.(spec, { projectRoot, aliasConfig, configBasePath, file }) *)
callResolve(r, file, spec) ==
  CASE r.tag = "ruby"       -> rubyResolve(file, spec)
    [] r.tag = "sql"        -> sqlResolve(file, spec)
    [] r.tag = "python"     -> pythonResolve(file, spec)
    [] r.tag = "python_v1"  -> pythonResolveV1(file, spec)
    [] r.tag = "javascript" -> javascriptResolve(file, spec)
    [] OTHER                -> r

(* for (const r of resolvers) { resolved = r.resolve(..); if (resolved) break } *)
(* variant: the loop of the first release, where a later resolver overrides  *)
RECURSIVE customResolverLastWins(_, _, _, _, _)
customResolverLastWins(k, consulted, file, spec, target) ==
  IF k > Len(resolvers) THEN [consulted |-> consulted, out |-> target]
  ELSE LET resolved == callResolve(resolvers[k], file, spec)
       IN IF resolved = Throws THEN [consulted |-> Append(consulted, k), out |-> Throws]
          ELSE customResolverLastWins(k + 1, Append(consulted, k), file, spec,
                                      IF resolved = None THEN target ELSE resolved)

customResolverOverride(k, consulted, file, spec) ==
  customResolverLastWins(k, consulted, file, spec, None)

RECURSIVE customResolverFrom(_, _, _, _)
customResolverFrom(k, consulted, file, spec) ==
  IF k > Len(resolvers) THEN [consulted |-> consulted, out |-> None]
  ELSE LET resolved == callResolve(resolvers[k], file, spec)
       IN IF resolved = None
          THEN customResolverFrom(k + 1, Append(consulted, k), file, spec)
          ELSE [consulted |-> Append(consulted, k), out |-> resolved]

customResolver(file, spec) == customResolverFrom(1, << >>, file, spec)

(* target of one specifier, with the resolvers consulted on the way *)
resolveSpec(file, spec) ==
  LET fast  == relativeFastPath(file, spec)
      chain == IF fast = None THEN customResolver(file, spec)
               ELSE [consulted |-> << >>, out |-> None]
  IN [file |-> file, spec |-> spec, fast |-> fast, consulted |-> chain.consulted,
      target |-> IF fast # None THEN fast ELSE chain.out]

(* target && !IGNORE.test(target) && !visited.has(target) && statSync(target).isFile() *)
enqueueGuard(target, seen) ==
  /\ target.tag = "path"
  /\ ~IGNORE_test(AbsStr(target.path))
  /\ target.path \notin seen
  /\ existsSync(target.path)
  /\ isFile(target.path)

(* variant: the target is recorded as visited and not queued for a scan *)
queueKept(q, target) == q

(* queue.push(target) *)
queuePush(q, target) == Append(q, target)

(* the inner loop over scanner.scan(src); a throwing resolve leaves it *)
RECURSIVE scanSpecs(_, _, _)
scanSpecs(file, specs, st) ==
  IF specs = << >> THEN st
  ELSE LET r == resolveSpec(file, Head(specs))
           logged == Append(st.log, r)
       IN IF r.target = Throws
          THEN [st EXCEPT !.log = logged, !.crashed = TRUE]
          ELSE IF enqueueGuard(r.target, st.visited)
          THEN scanSpecs(file, Tail(specs),
                         [st EXCEPT !.log = logged,
                                    !.visited = @ \cup {r.target.path},
                                    !.queue = queuePush(@, r.target.path)])
          ELSE scanSpecs(file, Tail(specs), [st EXCEPT !.log = logged])

RECURSIVE Flatten(_)
Flatten(ss) == IF ss = << >> THEN << >> ELSE Head(ss) \o Flatten(Tail(ss))

(* for (const p of INPUTS) queue.push(...walk(p, IGNORE, projectRoot)) *)
seedQueueIn(order) ==
  Flatten([k \in 1..Len(INPUTS) |-> walk(INPUTS[k], projectRoot, order)])

seedQueue == seedQueueIn(listing)

Range(s) == { s[k] : k \in 1..Len(s) }

(* variant: every walked file starts in the visited set *)
seedVisitedAll(q) == Range(q)

(* new Set(queue.filter(f => ALL_EXT.includes(getFileExtension(f, ALL_EXT)))) *)
seedVisited(q) == { f \in Range(q) : hasScanner(f) }

(* variant: the run goes on when at least one input exists *)
inputsExistAny == \E k \in 1..Len(INPUTS) : existsSync(INPUTS[k])

(* for (const inputPath of INPUTS) if (!existsSync(inputPath)) process.exit(1) *)
inputsExist == \A k \in 1..Len(INPUTS) : existsSync(INPUTS[k])

(* variant: the loop bound is read once, before the loop *)
loopBoundFrozen == Len(seeds)

(* i < queue.length, evaluated at every iteration *)
loopBound == Len(queue)

(* variant: the option is not looked at *)
followDepsAlways == TRUE

(* if (opts.deps !== false) *)
followDeps == deps

(* ------------------------------------------------------------------ *)
(* Initial states: one family of filesystems and options for each     *)
(* part of the engine                                                 *)
(* ------------------------------------------------------------------ *)
NoFiles == [d \in {} |-> << >>]

(* the .gitignore with lines g in directory d, and none when g is empty *)
OnlyIn(d, g) == [x \in (IF g = << >> THEN {} ELSE {d}) |-> g]

InitRun ==
  /\ aliasConfig = Null
  /\ configBasePath = Root
  /\ queue = << >>
  /\ visited = {}
  /\ i = 1
  /\ pc = "start"
  /\ seeds = << >>
  /\ scans = << >>
  /\ resolutions = << >>
  /\ bundled = {}
  /\ tree = << >>
  /\ touched = {}
  /\ ext = << >>
  /\ mode = "cli"
  /\ cliVisited = {}
  /\ dependencies = << >>

(* an application in /w/p, with plug-ins that answer every specifier     *)
(* alike; an unreadable file is tried with one listing order            *)
Init ==
  /\ dirs = AppDirs
  /\ files = SourceFiles \cup {fileT}
  /\ denied = {}
  /\ listing \in ListingOrders
  /\ content \in [SourceFiles -> UNION { ContentsOf(f) : f \in SourceFiles }]
  /\ \A f \in SourceFiles : content[f] \in ContentsOf(f)
  /\ unreadable \in { {}, {fileB}, {fileT} }
  /\ unreadable # {} => listing = AllNames
  /\ gitignore \in { OnlyIn(dirP, g) : g \in GitignoreFiles }
  /\ configs = NoFiles
  /\ exclude \in Excludes
  /\ deps = TRUE
  /\ resolvers \in ResolverBehaviours
  /\ registry = ALL_EXT
  /\ INPUTS \in SeqsUpTo(InputCandidates, MaxInputs) \ { << >> }
  /\ projectRoot = Root
  /\ InitRun

(* the same application, with and without --no-deps *)
InitNoDeps ==
  /\ dirs = AppDirs
  /\ files = SourceFiles \cup {fileT}
  /\ denied = {}
  /\ listing = AllNames
  /\ content \in [SourceFiles -> UNION { ContentsOf(f) : f \in SourceFiles }]
  /\ \A f \in SourceFiles : content[f] \in ContentsOf(f)
  /\ unreadable = {}
  /\ gitignore \in { OnlyIn(dirP, g) : g \in GitignoreFiles }
  /\ configs = NoFiles
  /\ exclude \in Excludes
  /\ deps \in BOOLEAN
  /\ resolvers \in { <<None, None>>, <<Some(fileT), Some(fileC)>> }
  /\ registry = ALL_EXT
  /\ INPUTS \in SeqsUpTo(InputCandidates, MaxInputs) \ { << >> }
  /\ projectRoot = Root
  /\ InitRun

(* the monorepo: one walk from any of its paths *)
WalkRoots == {dirP, dirPk, dirFoo, dirBar, dirGrp, fileC, barZ, fileM}

DistLine  == Line(<<"dist">>, TRUE, FALSE)
BuildLine == Line(<<"build">>, TRUE, FALSE)

InitWalk ==
  /\ dirs = MonoDirs
  /\ files = MonoFiles
  /\ denied \in { {}, {dirFoo}, {dirBarDist}, {dirPk} }
  /\ listing \in ListingOrders
  /\ content = NoFiles
  /\ unreadable = {}
  /\ \E top \in { << >>, <<BuildLine>>, <<DistLine>> },
        foo \in { << >>, <<DistLine>> },
        grp \in { << >>, <<DistLine>> } :
       gitignore = [d \in { x \in {dirP} : top # << >> }
                          \cup { x \in {dirFoo} : foo # << >> }
                          \cup { x \in {dirGrp} : grp # << >> } |->
                      IF d = dirP THEN top ELSE IF d = dirFoo THEN foo ELSE grp]
  /\ configs = NoFiles
  /\ exclude \in Excludes
  /\ deps = TRUE
  /\ resolvers = << >>
  /\ registry = ALL_EXT
  /\ \E start \in WalkRoots : INPUTS = <<start>>
  /\ projectRoot = dirP
  /\ InitRun

(* a chain of directories /w/p/s with markers anywhere on it *)
dirS  == << <<"w">>, <<"p">>, <<"s">> >>
fileS == Append(dirS, <<"a", "js">>)
Chain == {Root, dirW, dirP, dirS}
PackageJson == <<"package", "json">>
Gemfile     == <<"Gemfile">>

InitRoot ==
  /\ \E gitAt \in SUBSET Chain, manifestAt \in SUBSET Chain, gemAt \in SUBSET {dirW} :
       /\ dirs = Chain \cup { Append(d, DotGit) : d \in gitAt }
       /\ files = {fileS} \cup { Append(d, PackageJson) : d \in manifestAt }
                          \cup { Append(d, Gemfile) : d \in gemAt }
  /\ denied = {}
  /\ listing = AllNames
  /\ content = [f \in {fileS} |-> << >>]
  /\ unreadable = {}
  /\ gitignore = NoFiles
  /\ configs = NoFiles
  /\ exclude = NoExclude
  /\ deps = TRUE
  /\ resolvers = << >>
  /\ registry = ALL_EXT
  /\ \E start \in Chain \cup {fileS, fileM} : INPUTS = <<start>>
  /\ projectRoot = Root
  /\ InitRun

(* a Ruby project: a.rb requires 'foo' *)
dirLib   == << <<"w">>, <<"p">>, <<"lib">> >>
aRb      == << <<"w">>, <<"p">>, <<"a", "rb">> >>
fooPy    == << <<"w">>, <<"p">>, <<"foo", "py">> >>
fooSql   == << <<"w">>, <<"p">>, <<"foo", "sql">> >>
libFooRb == Append(dirLib, <<"foo", "rb">>)

(* resolver chains in the load order of the plug-in directory *)
RubyChains ==
  { << Plugin("ruby") >>,
    << Plugin("javascript"), Plugin("ruby") >>,
    << Plugin("python"), Plugin("ruby") >>,
    << Plugin("python_v1"), Plugin("ruby") >>,
    << Plugin("ruby"), Plugin("sql") >>,
    << Plugin("javascript"), Plugin("python"), Plugin("ruby"), Plugin("sql") >> }

InitRuby ==
  /\ dirs = {Root, dirW, dirP, dirGit, dirLib}
  /\ \E others \in SUBSET {fooPy, fooSql, libFooRb} : files = {aRb} \cup others
  /\ denied = {}
  /\ listing \in ListingOrders
  /\ content = [f \in files |-> IF f = aRb THEN <<RequireFoo>> ELSE << >>]
  /\ unreadable = {}
  /\ gitignore = NoFiles
  /\ configs = NoFiles
  /\ exclude \in Excludes
  /\ deps = TRUE
  /\ resolvers \in RubyChains
  /\ registry = ALL_EXT
  /\ INPUTS \in { <<aRb>>, <<dirP>> }
  /\ projectRoot = Root
  /\ InitRun

(* a JavaScript project with config files in /w/p and in /w/p/app *)
dirApp    == << <<"w">>, <<"p">>, <<"app">> >>
dirAppSrc == Append(dirApp, <<"src">>)
dirSrc    == << <<"w">>, <<"p">>, <<"src">> >>
appA      == Append(dirApp, <<"a", "js">>)
appSrcB   == Append(dirAppSrc, <<"b", "js">>)
srcB      == Append(dirSrc, <<"b", "js">>)

rootTs == Append(dirP, TSCONFIG)
rootJs == Append(dirP, JSCONFIG)
appTs  == Append(dirApp, TSCONFIG)
appJs  == Append(dirApp, JSCONFIG)

InitAlias ==
  /\ dirs = {Root, dirW, dirP, dirGit, dirApp, dirAppSrc, dirSrc}
  /\ files = {appA, appSrcB, srcB}
  /\ denied = {}
  /\ listing = AllNames
  /\ content = [f \in files |-> IF f = appA THEN <<AliasB>> ELSE << >>]
  /\ unreadable \in { {}, {appTs} }
  /\ gitignore = NoFiles
  /\ \E at \in SUBSET {rootTs, rootJs, appTs, appJs} :
       configs \in [at -> ConfigForms]
  /\ \A c \in DOMAIN configs \cap {rootJs, appJs} : configs[c] \in {"json", "garbage"}
  /\ exclude = NoExclude
  /\ deps = TRUE
  /\ resolvers = << Plugin("javascript") >>
  /\ registry = ALL_EXT
  /\ INPUTS \in { <<appA>>, <<dirApp>>, <<dirP>> }
  /\ projectRoot = Root
  /\ InitRun

(* ------------------------------------------------------------------ *)
(* The run                                                            *)
(* ------------------------------------------------------------------ *)
(* Validate inputs exist: the first missing one ends the process *)
ValidateInputs ==
  /\ pc = "start"
  /\ pc' = IF inputsExist THEN "validated" ELSE "failed"
  /\ UNCHANGED <<env, projectRoot, aliasConfig, configBasePath,
                 queue, visited, i, seeds, scans, resolutions, bundled,
                 tree, touched, ext, rpc>>

LocateProjectRoot ==
  /\ pc = "validated"
  /\ projectRoot' = findProjectRoot(INPUTS[1])
  /\ pc' = "located"
  /\ UNCHANGED <<env, aliasConfig, configBasePath,
                 queue, visited, i, seeds, scans, resolutions, bundled,
                 tree, touched, ext, rpc>>

(* load ts/jsconfig for path aliases *)
LoadAliasConfig ==
  /\ pc = "located"
  /\ mode = "cli"
  /\ aliasConfig' = loadAliasConfig(projectRoot).aliasConfig
  /\ configBasePath' = loadAliasConfig(projectRoot).configBasePath
  /\ pc' = "configured"
  /\ UNCHANGED <<env, projectRoot, queue, visited, i, seeds, scans, resolutions, bundled,
                 tree, touched, ext, rpc>>

SeedQueue ==
  /\ pc = "configured"
  /\ mode # "scan"
  /\ IF \E k \in 1..Len(INPUTS) : walkThrows(INPUTS[k], projectRoot, listing)
     THEN pc' = "crashed" /\ UNCHANGED <<queue, visited, seeds>>
     ELSE /\ queue' = seedQueue
          /\ visited' = seedVisited(queue')
          /\ seeds' = queue'
          /\ pc' = "bfs"
  /\ touched' = UNION { walkStats(INPUTS[k], projectRoot, listing) : k \in 1..Len(INPUTS) }
  /\ UNCHANGED <<env, projectRoot, aliasConfig, configBasePath,
                 i, scans, resolutions, bundled, tree, ext, rpc>>

(* one iteration of for (let i = 0; i < queue.length; i++) *)
ScanFile ==
  /\ pc = "bfs"
  /\ followDeps
  /\ i <= loopBound
  /\ LET file == queue[i]
     IN IF ~hasScanner(file)
        THEN /\ i' = i + 1
             /\ resolutions' = << >>
             /\ UNCHANGED <<queue, visited, pc, scans>>
        ELSE IF file \in unreadable
        THEN /\ pc' = "crashed"
             /\ resolutions' = << >>
             /\ UNCHANGED <<queue, visited, i, scans>>
        ELSE LET st == scanSpecs(file, content[file],
                                 [visited |-> visited, queue |-> queue,
                                  log |-> << >>, crashed |-> FALSE])
             IN /\ scans' = Append(scans, file)
                /\ visited' = st.visited
                /\ queue' = st.queue
                /\ resolutions' = st.log
                /\ pc' = IF st.crashed THEN "crashed" ELSE pc
                /\ i' = IF st.crashed THEN i ELSE i + 1
  /\ UNCHANGED <<env, projectRoot, aliasConfig, configBasePath, seeds, bundled,
                 tree, touched, ext, rpc>>

(* the members of a list, each at its first place *)
RECURSIVE Distinct(_, _)
Distinct(s, seen) ==
  IF s = << >> THEN << >>
  ELSE IF Head(s) \in seen THEN Distinct(Tail(s), seen)
  ELSE <<Head(s)>> \o Distinct(Tail(s), seen \cup {Head(s)})

(* [...visited]: a Set is iterated in insertion order, which is the      *)
(* recognized seeds in queue order and then the dependencies as enqueued *)
visitedList ==
  Distinct(SelectSeq(seeds, hasScanner), {})
    \o SubSeq(queue, Len(seeds) + 1, Len(queue))

(* the children Map of one node: the first parts of the paths below it,  *)
(* in the order in which they were first set                             *)
childNames(paths) == Distinct([k \in 1..Len(paths) |-> Head(paths[k])], {})

below(paths, name) ==
  LET under_ == SelectSeq(paths, LAMBDA q : Head(q) = name /\ Len(q) > 1)
  IN [k \in 1..Len(under_) |-> Tail(under_[k])]

(* generateTree: one line per node, children in the order of the Map;    *)
(* a line is given by the path of its node                               *)
RECURSIVE generateTree(_, _)
generateTree(paths, prefix) ==
  LET names == childNames(paths)
  IN Flatten([j \in 1..Len(names) |->
                <<Append(prefix, names[j])>>
                  \o generateTree(below(paths, names[j]), Append(prefix, names[j]))])

makeTree(relPaths) == generateTree(relPaths, << >>)

(* Array.prototype.sort on absolute paths, AllNames being in string order *)
nameRank(n) == CHOOSE k \in 1..Len(AllNames) : AllNames[k] = n

RECURSIVE pathLess(_, _)
pathLess(a, b) ==
  IF a = << >> THEN b # << >>
  ELSE IF b = << >> THEN FALSE
  ELSE IF Head(a) = Head(b) THEN pathLess(Tail(a), Tail(b))
  ELSE nameRank(Head(a)) < nameRank(Head(b))

RECURSIVE sort(_)
sort(S) ==
  IF S = {} THEN << >>
  ELSE LET least == CHOOSE a \in S : \A b \in S \ {a} : pathLess(a, b)
       IN <<least>> \o sort(S \ {least})

relativeAll(list) == [k \in 1..Len(list) |-> relative(projectRoot, list[k])]

(* makeTree([...visited].map(relative)) and bundle([...visited].sort()); *)
(* bundle reads every file                                               *)
WriteOutput ==
  /\ pc = "bfs"
  /\ ~followDeps \/ i > loopBound
  /\ IF visited \cap unreadable # {}
     THEN pc' = "crashed" /\ UNCHANGED <<bundled, tree, cliVisited>>
     ELSE /\ pc' = "done"
          /\ bundled' = visited
          /\ tree' = makeTree(relativeAll(visitedList))
          /\ cliVisited' = IF mode = "cli" THEN visited ELSE cliVisited
  /\ UNCHANGED <<env, projectRoot, aliasConfig, configBasePath,
                 queue, visited, i, seeds, scans, resolutions,
                 touched, ext, mode, dependencies>>

Next ==
  \/ ValidateInputs
  \/ LocateProjectRoot
  \/ LoadAliasConfig
  \/ SeedQueue
  \/ ScanFile
  \/ WriteOutput

Spec == Init /\ [][Next]_vars

NoDepsSpec == InitNoDeps /\ [][Next]_vars

RubySpec == InitRuby /\ [][Next]_vars

AliasSpec == InitAlias /\ [][Next]_vars

(* the root locator alone, applied to the first input *)
RootNext == ValidateInputs \/ LocateProjectRoot

RootSpec == InitRoot /\ [][RootNext]_vars

(* one call of walk(start, IGNORE, projectRoot) *)
Walk ==
  /\ pc = "start"
  /\ queue' = walk(INPUTS[1], projectRoot, listing)
  /\ pc' = IF walkThrows(INPUTS[1], projectRoot, listing) THEN "crashed" ELSE "walked"
  /\ touched' = walkStats(INPUTS[1], projectRoot, listing)
  /\ UNCHANGED <<env, projectRoot, aliasConfig, configBasePath,
                 visited, i, seeds, scans, resolutions, bundled, tree, ext, rpc>>

WalkNext == Walk

WalkSpec == InitWalk /\ [][WalkNext]_vars

(* a Python package: /w/p/pkg/sub/m.py imports util with leading dots *)
dirPkg   == << <<"w">>, <<"p">>, <<"pkg">> >>
dirSub   == Append(dirPkg, <<"sub">>)
mPy      == Append(dirSub, <<"m", "py">>)
subUtil  == Append(dirSub, <<"util", "py">>)
pkgUtil  == Append(dirPkg, <<"util", "py">>)
rootUtil == Append(dirP, <<"util", "py">>)

MaxDots == 3

InitPython ==
  /\ dirs = {Root, dirW, dirP, dirGit, dirPkg, dirSub}
  /\ \E others \in SUBSET {subUtil, pkgUtil, rootUtil} : files = {mPy} \cup others
  /\ denied = {}
  /\ listing \in ListingOrders
  /\ \E n \in 1..MaxDots :
       content = [f \in files |-> IF f = mPy THEN << PyRel(n, <<"util">>) >> ELSE << >>]
  /\ unreadable = {}
  /\ gitignore = NoFiles
  /\ configs = NoFiles
  /\ exclude = NoExclude
  /\ deps = TRUE
  /\ resolvers \in { << Plugin("python") >>, << Plugin("javascript"), Plugin("python") >> }
  /\ registry = ALL_EXT
  /\ INPUTS \in { <<mPy>>, <<dirSub>> }
  /\ projectRoot = Root
  /\ InitRun

(* one extension lookup, in a registry of any load order *)
MaxExts == 3

ERB      == <<"", "erb">>
HTML_ERB == <<"", "html", "erb">>
ExtPool  == { ERB, HTML_ERB, <<"", "js">>, DOCKERFILE, <<"Dockerfile", "dev">> }

RECURSIVE Registries(_)
Registries(n) ==
  IF n = 0 THEN { << >> }
  ELSE LET shorter == Registries(n - 1)
       IN shorter \cup { Append(r, e) : r \in shorter, e \in ExtPool }

LookupNames ==
  { <<"x", "html", "erb">>, <<"x", "erb">>, <<"x", "js">>, <<"x", "txt">>,
    <<"Dockerfile", "dev">>, DOCKERFILE }

InitLookup ==
  /\ dirs = {Root, dirW, dirP}
  /\ \E n \in LookupNames : /\ files = {Append(dirP, n)}
                             /\ INPUTS = <<Append(dirP, n)>>
  /\ denied = {}
  /\ listing = AllNames
  /\ content = [f \in files |-> << >>]
  /\ unreadable = {}
  /\ gitignore = NoFiles
  /\ configs = NoFiles
  /\ exclude = NoExclude
  /\ deps = TRUE
  /\ resolvers = << >>
  /\ registry \in { r \in Registries(MaxExts) :
                      \A j, k \in 1..Len(r) : r[j] = r[k] => j = k }
  /\ projectRoot = dirP
  /\ InitRun

(* getFileExtension(file, ALL_EXT) *)
Lookup ==
  /\ pc = "start"
  /\ ext' = getFileExtensionIn(INPUTS[1], registry)
  /\ pc' = "looked"
  /\ UNCHANGED <<env, projectRoot, aliasConfig, configBasePath,
                 queue, visited, i, seeds, scans, resolutions, bundled,
                 tree, touched, rpc>>

LookupNext == Lookup

LookupSpec == InitLookup /\ [][LookupNext]_vars

PythonSpec == InitPython /\ [][Next]_vars

(* ------------------------------------------------------------------ *)
(* The server: analyze_codebase and scan_dependencies                 *)
(* ------------------------------------------------------------------ *)
dirWSrc == << <<"w">>, <<"src">> >>
wSrcB   == Append(dirWSrc, <<"b", "js">>)

SpecSrcB == RelSpec(1, << <<"src">>, <<"b">> >>)    \* '../src/b'

ServerExcludes ==
  { NoExclude,
    [word |-> "src", anchored |-> FALSE],
    [word |-> "w", anchored |-> FALSE] }

(* a project in /w/p with config files in /w/p and /w/p/app; the script *)
(* runs first, then one operation of the server gets the same inputs    *)
InitRpc ==
  /\ \E outside \in BOOLEAN :
       /\ dirs = {Root, dirW, dirP, dirGit, dirApp, dirAppSrc, dirSrc}
                   \cup (IF outside THEN {dirWSrc} ELSE {})
       /\ files = {appA, appSrcB, srcB} \cup (IF outside THEN {wSrcB} ELSE {})
  /\ denied = {}
  /\ listing = AllNames
  /\ \E c \in { <<AliasB>>, <<SpecSrcB>>, <<SpecNone, AliasB>> } :
       content = [f \in files |-> IF f = appA THEN c ELSE << >>]
  /\ unreadable = {}
  /\ gitignore = NoFiles
  /\ \E at \in SUBSET {rootTs, appTs} : configs \in [at -> {"json", "jsonc"}]
  /\ exclude \in ServerExcludes
  /\ deps = TRUE
  /\ resolvers = << Plugin("javascript") >>
  /\ registry = ALL_EXT
  /\ INPUTS \in { <<appA>>, <<dirApp>>, <<dirP>> }
  /\ projectRoot = Root
  /\ InitRun

(* JSON.parse(content): comments and trailing commas are syntax errors *)
JSON_parse(text) == IF text.form = "json" THEN Config(text.file, TRUE) ELSE Null

(* try { return JSON.parse(readFileSync(path, 'utf8')) } catch (e) {} *)
readConfigOfServer(path) ==
  IF path \in unreadable THEN Null ELSE JSON_parse(textOf(path))

(* loadAliasConfig(projectRoot, inputFile) of the server: inputFile is   *)
(* not used, and jsconfig.json is read only when there is no tsconfig.json *)
loadAliasConfigOfServer(root) ==
  IF existsSync(Append(root, TSCONFIG)) THEN readConfigOfServer(Append(root, TSCONFIG))
  ELSE IF existsSync(Append(root, JSCONFIG)) THEN readConfigOfServer(Append(root, JSCONFIG))
  ELSE Null

(* CallToolRequest: the run of the script is over and the server gets   *)
(* its inputs, for analyze_codebase or, one file, for scan_dependencies *)
CallTool ==
  /\ pc = "done"
  /\ mode = "cli"
  /\ \E name \in {"analyze", "scan"} :
       /\ name = "scan" => Len(INPUTS) = 1 /\ isFile(INPUTS[1])
       /\ mode' = name
  /\ pc' = "start"
  /\ projectRoot' = Root
  /\ aliasConfig' = Null
  /\ configBasePath' = Root
  /\ queue' = << >>
  /\ visited' = {}
  /\ i' = 1
  /\ seeds' = << >>
  /\ scans' = << >>
  /\ resolutions' = << >>
  /\ bundled' = {}
  /\ tree' = << >>
  /\ touched' = {}
  /\ UNCHANGED <<env, ext, cliVisited, dependencies>>

(* const aliasConfig = this.loadAliasConfig(projectRoot, INPUTS[0]), and *)
(* configBasePath: dirname(projectRoot) as every resolver is called with *)
LoadAliasConfigOfServer ==
  /\ pc = "located"
  /\ mode # "cli"
  /\ aliasConfig' = loadAliasConfigOfServer(projectRoot)
  /\ configBasePath' = dirname(projectRoot)
  /\ pc' = "configured"
  /\ UNCHANGED <<env, projectRoot, queue, visited, i, seeds, scans, resolutions, bundled,
                 tree, touched, ext, rpc>>

(* one entry of dependencies: { spec, resolved, exists } *)
dependency(r) ==
  [spec |-> r.spec, resolved |-> r.target,
   exists |-> r.target.tag = "path" /\ existsSync(r.target.path)]

(* scanDependencies after its set-up: IGNORE is built and never tested; *)
(* every specifier is pushed with what it resolved to                   *)
ScanDependencies ==
  /\ pc = "configured"
  /\ mode = "scan"
  /\ LET actualFile == INPUTS[1]
         found == [k \in 1..Len(content[actualFile]) |->
                     resolveSpec(actualFile, content[actualFile][k])]
     IN IF ~hasScanner(actualFile)
        THEN pc' = "done" /\ UNCHANGED <<dependencies, resolutions>>
        ELSE IF actualFile \in unreadable
                \/ \E k \in 1..Len(found) : found[k].target = Throws
        THEN pc' = "crashed" /\ UNCHANGED <<dependencies, resolutions>>
        ELSE /\ dependencies' = [k \in 1..Len(found) |-> dependency(found[k])]
             /\ resolutions' = found
             /\ pc' = "done"
  /\ UNCHANGED <<env, projectRoot, aliasConfig, configBasePath, queue, visited, i,
                 seeds, scans, bundled, tree, touched, ext, mode, cliVisited>>

RpcNext ==
  \/ Next
  \/ CallTool
  \/ LoadAliasConfigOfServer
  \/ ScanDependencies

RpcSpec == InitRpc /\ [][RpcNext]_vars

TypeOK ==
  /\ pc \in {"start", "failed", "validated", "located", "configured", "walked",
            "looked", "bfs", "crashed", "done"}
  /\ i \in 1..(Len(queue) + 1)
  /\ visited \subseteq Files

(* ------------------------------------------------------------------ *)
(* Properties                                                         *)
(* ------------------------------------------------------------------ *)
Started == pc \in {"bfs", "crashed", "done"}

(* C1: every distinct absolute path is handed to its plug-in's scan at  *)
(* most once in a run, whatever the list of input paths.                *)
ScanAtMostOnce ==
  \A j, k \in 1..Len(scans) : j # k => scans[j] # scans[k]

(* C2: the queue never holds the same path twice.                       *)
QueueHoldsNoPathTwice ==
  \A j, k \in 1..Len(queue) : j # k => queue[j] # queue[k]

excludeMatches(f) == IGNORE_test(RelStr(relative(projectRoot, f)))

(* C3: a file whose root-relative path the exclude pattern matches is   *)
(* never in the visited set.  Stated for the files that were not named  *)
(* as an input themselves, since the walker returns a named file as is. *)
ExcludedNeverVisited ==
  Started => \A f \in visited \ Range(INPUTS) : ~excludeMatches(f)

(* f matches a rule of the .gitignore of one of its ancestors inside the project *)
gitignored(f) ==
  \E d \in Dirs :
    /\ IsPrefix(projectRoot, d) /\ IsPrefix(d, f) /\ d # f
    /\ LET rules == parseGitignoreInDir(d, projectRoot)
       IN \E k \in 1..Len(rules) : patternTest(rules[k], relative(projectRoot, f))

(* C4: a file matched by a rule of an ancestor's .gitignore is not in   *)
(* the final visited set (again for files not named as an input).       *)
GitignoredNeverInOutput ==
  pc = "done" => \A f \in bundled \ Range(INPUTS) : ~gitignored(f)

unrecognizedSeeds == { f \in Range(seeds) : ~hasScanner(f) }

enqueuedAsDependency == { queue[k] : k \in (Len(seeds) + 1)..Len(queue) }

(* C5 as stated: every seed of an unrecognized type is part of the output. *)
UnrecognizedSeedInOutput ==
  pc = "done" => unrecognizedSeeds \subseteq bundled

(* C5 amended: a seed of an unrecognized type is never scanned, and it  *)
(* is part of the output exactly when the BFS enqueued it as a resolved *)
(* dependency.                                                          *)
UnrecognizedSeedOnlyAsDependency ==
  /\ Started => unrecognizedSeeds \cap Range(scans) = {}
  /\ pc = "done" =>
       \A f \in unrecognizedSeeds : f \in bundled <=> f \in enqueuedAsDependency

UnrecognizedSeedLeftOut ==
  pc = "done" /\ fileT \in unrecognizedSeeds /\ fileT \notin bundled

(* C6: the BFS loop ends with the scan index past the end of the queue: *)
(* whenever the script is no longer in the loop, every queue entry has  *)
(* been passed.                                                         *)
BfsReachesEndOfQueue == (Started /\ pc # "bfs") => i > Len(queue)

(* C7: the final visited set is the same for every listing order.       *)
accepted(file) ==
  { t \in Files :
      \E k \in 1..Len(content[file]) :
        /\ resolveSpec(file, content[file][k]).target = Some(t)
        /\ ~IGNORE_test(AbsStr(t)) }

RECURSIVE discovered(_)
discovered(S) ==
  LET more == S \cup UNION { accepted(f) : f \in { g \in S \cap SourceFiles : hasScanner(g) } }
  IN IF more = S THEN S ELSE discovered(more)

VisitedIndependentOfListing ==
  pc = "done" =>
    \A order \in ListingOrders :
      visited = discovered({ f \in Range(seedQueueIn(order)) : hasScanner(f) })

DependencyFoundUnderOtherOrder ==
  /\ pc = "done"
  /\ visited # seedVisited(seeds)
  /\ \E order \in ListingOrders : seedQueueIn(order) # seeds

(* C8: a target found by the relative fast path is taken without        *)
(* consulting a resolver; otherwise the resolvers are consulted in      *)
(* registration order up to the first one that does not return null,    *)
(* and its answer is the target.                                        *)
FirstResolverWins ==
  \A j \in 1..Len(resolutions) :
    LET r == resolutions[j]
        n == Len(r.consulted)
    IN IF r.fast # None
       THEN r.consulted = << >> /\ r.target = r.fast
       ELSE /\ n >= 1
            /\ r.consulted = [k \in 1..n |-> k]
            /\ \A k \in 1..(n - 1) : callResolve(resolvers[k], r.file, r.spec) = None
            /\ n < Len(resolvers) => callResolve(resolvers[n], r.file, r.spec) # None
            /\ r.target = callResolve(resolvers[n], r.file, r.spec)

LaterResolverDidNotOverride ==
  \E j, k \in 1..Len(resolutions) :
    /\ resolutions[j].fast # None
    /\ resolutions[k].fast = None
    /\ resolvers[1] = Some(fileT) /\ resolvers[2] = Some(fileC)
    /\ resolutions[k].target = Some(fileT)

(* C9: a failed read of one file or a throwing resolve for one          *)
(* specifier never ends the run.                                        *)
LocalFailureNotFatal == pc # "crashed"

(* C10 as stated: with several inputs of which one exists, the run does *)
(* not fail.                                                            *)
MissingInputTolerated ==
  (Len(INPUTS) > 1 /\ \E k \in 1..Len(INPUTS) : existsSync(INPUTS[k])) => pc # "failed"

(* C10 amended: the run fails at validation exactly when some input     *)
(* does not exist, and then nothing is walked; when every input exists, *)
(* every input is walked into the queue.                                *)
AnyMissingInputFails ==
  /\ pc # "start" =>
       (pc = "failed" <=> \E k \in 1..Len(INPUTS) : ~existsSync(INPUTS[k]))
  /\ pc = "failed" => queue = << >> /\ visited = {}
  /\ Started =>
       /\ \A k \in 1..Len(INPUTS) : existsSync(INPUTS[k])
       /\ SubSeq(queue, 1, Len(seeds)) = seeds
  /\ (pc = "bfs" /\ i = 1) =>
       \A k \in 1..Len(INPUTS) :
         Range(walk(INPUTS[k], projectRoot, listing)) \subseteq Range(seeds)

FailedThoughOneInputExists ==
  /\ pc = "failed"
  /\ Len(INPUTS) > 1
  /\ \E k \in 1..Len(INPUTS) : existsSync(INPUTS[k])

(* ------------------------------------------------------------------ *)
(* Properties of the walker                                           *)
(* ------------------------------------------------------------------ *)
under(d, n) == IsPrefix(d, n) /\ Len(n) > Len(d)

(* the rules walk has merged when it lists directory d on its way down *)
(* from start, leaving out the .gitignore files of the directories in  *)
(* skip                                                              *)
RECURSIVE inherited(_, _, _)
inherited(start, d, skip) ==
  (IF d = start THEN << >> ELSE inherited(start, dirname(d), skip))
    \o (IF d \in skip THEN << >> ELSE parseGitignoreInDir(d, projectRoot))

(* f lies below the directory start, every directory between them can be *)
(* listed, and no path from start down to f is ignored where it is listed *)
kept(f, start, skip) ==
  /\ under(start, f)
  /\ \A j \in Len(start)..(Len(f) - 1) : SubSeq(f, 1, j) \notin denied
  /\ \A j \in (Len(start) + 1)..Len(f) :
       ~isIgnored(SubSeq(f, 1, j), inherited(start, SubSeq(f, 1, j - 1), skip), projectRoot)

(* C11: walk never raises: a missing root gives the empty list, and a   *)
(* directory root gives exactly the files below it that are reached      *)
(* through readable, non-ignored directories: a directory that cannot be *)
(* read is skipped and its siblings are still walked.                    *)
WalkNeverRaises ==
  pc # "start" =>
    /\ pc = "walked"
    /\ ~existsSync(INPUTS[1]) => queue = << >>
    /\ isDirectory(INPUTS[1]) =>
         Range(queue) = { f \in Files : kept(f, INPUTS[1], {}) }

UnreadableSiblingSkipped ==
  /\ pc = "walked"
  /\ INPUTS = <<dirPk>>
  /\ denied = {dirFoo}
  /\ barZ \in Range(queue)
  /\ fooZ \notin Range(queue)

(* C12: walk of a regular file returns exactly that file, whatever the  *)
(* exclude pattern and the .gitignore rules say about it.                *)
FileRootReturnedAsIs ==
  (pc # "start" /\ isFile(INPUTS[1])) => (pc = "walked" /\ queue = <<INPUTS[1]>>)

IgnoredFileRootReturned ==
  /\ pc = "walked"
  /\ INPUTS = <<fileC>>
  /\ queue = <<fileC>>
  /\ IGNORE_test(RelStr(relative(projectRoot, fileC)))
  /\ \E k \in 1..Len(gitignoreLines(dirP)) :
       patternTest(parseGitignoreInDir(dirP, projectRoot)[k], relative(projectRoot, fileC))

(* a line of the .gitignore of directory d matches path n, as the rule  *)
(* is meant: n is below d and has the name at the place the line allows  *)
lineMatches(line, d, n) ==
  /\ under(d, n)
  /\ IF line.rooted
     THEN n[Len(d) + 1] = line.name /\ (Len(n) = Len(d) + 1 \/ line.isDir)
     ELSE \E k \in (Len(d) + 1)..Len(n) :
            n[k] = line.name /\ (k = Len(n) \/ line.isDir)

(* C13: a rule of the .gitignore of a directory D that the walk lists   *)
(* excludes the matching paths below D, and no path outside D: a file    *)
(* outside D is returned whenever the other rules keep it.               *)
GitignoreScopedToSubtree ==
  pc = "walked" =>
    \A D \in DOMAIN gitignore : \A f \in Files :
      /\ (IsPrefix(INPUTS[1], D) /\ \E k \in 1..Len(gitignore[D]) :
                                      lineMatches(gitignore[D][k], D, f))
           => f \notin Range(queue)
      /\ (~under(D, f) /\ kept(f, INPUTS[1], {D})) => f \in Range(queue)

(* C14: a file below the walk root R that matches a rule of the          *)
(* .gitignore of R or of an ancestor of R up to the project root is not  *)
(* returned by walk(R).                                                  *)
AncestorRulesInherited ==
  pc = "walked" =>
    \A A \in DOMAIN gitignore :
      (IsPrefix(projectRoot, A) /\ IsPrefix(A, INPUTS[1])) =>
        \A f \in Range(queue) : \A k \in 1..Len(gitignore[A]) :
          under(INPUTS[1], f) => ~lineMatches(gitignore[A][k], A, f)

(* ------------------------------------------------------------------ *)
(* Properties of the project root locator                             *)
(* ------------------------------------------------------------------ *)
startDir == IF isFile(INPUTS[1]) THEN dirname(INPUTS[1]) ELSE INPUTS[1]

(* the directories from the start directory up to the filesystem root *)
ancestors(d) == { SubSeq(d, 1, k) : k \in 0..Len(d) }

(* those of them the loop looks at: it ends when it arrives at the root *)
examined(d) == { a \in ancestors(d) : a # dirname(a) }

nearest(S) == CHOOSE d \in S : \A e \in S : Len(e) <= Len(d)

(* the directory the priority rule selects among the directories of S *)
selected(S) ==
  LET repos == { d \in S : isRepositoryRoot(d) }
      projs == { d \in S : isProjectRoot(d) }
  IN IF repos # {} THEN nearest(repos)
     ELSE IF projs # {} THEN nearest(projs)
     ELSE startDir

(* C15: the locator returns a directory: the nearest directory with the  *)
(* version-control marker if the search found one, else the nearest       *)
(* directory with a manifest file if it found one, else the start         *)
(* directory; a nearer manifest never wins over a repository root above.  *)
RootByPriority ==
  pc = "located" =>
    /\ isDirectory(projectRoot)
    /\ projectRoot = selected(examined(startDir))

ManifestBelowRepositoryRoot ==
  /\ pc = "located"
  /\ INPUTS = <<fileS>>
  /\ isProjectRoot(dirS)
  /\ ~isRepositoryRoot(dirS) /\ ~isRepositoryRoot(dirP)
  /\ isRepositoryRoot(dirW)
  /\ projectRoot = dirW

(* C16: the search covers every directory from the start directory up to *)
(* and including the filesystem root: the nearest of them with the        *)
(* version-control marker is returned, or, when none has it, the nearest  *)
(* with a manifest file.                                                  *)
SearchIncludesFilesystemRoot ==
  pc = "located" => projectRoot = selected(ancestors(startDir))

(* ------------------------------------------------------------------ *)
(* Properties of the resolver chain on a Ruby project                 *)
(* ------------------------------------------------------------------ *)
(* C17: a.rb is the seed and requires 'foo'; with no lib/foo.rb under   *)
(* the project root the run ends without an error and with a.rb as the   *)
(* only visited file, whatever else the project holds and whichever      *)
(* other plug-ins are in the resolver chain.                             *)
UnresolvedRequireDropped ==
  (/\ pc \in {"done", "crashed"}
   /\ seeds = <<aRb>>
   /\ ~existsSync(libFooRb))
    => (pc = "done" /\ visited = {aRb})

(* ------------------------------------------------------------------ *)
(* Properties of the alias configuration                              *)
(* ------------------------------------------------------------------ *)
Configured == pc \in {"configured", "bfs", "done", "crashed"}

(* the directories from the project root down to the directory of the   *)
(* hint file that hold a tsconfig.json or a jsconfig.json                *)
configDirs ==
  { d \in ancestors(dirname(INPUTS[1])) :
      /\ IsPrefix(projectRoot, d)
      /\ (existsSync(Append(d, TSCONFIG)) \/ existsSync(Append(d, JSCONFIG))) }

(* C18: with a file as hint, the alias configuration in use comes from  *)
(* the nearest directory, from the hint file's directory up to the       *)
(* project root, that holds a config file; the config at the project     *)
(* root is in use only when no nearer config file exists.                *)
NearestConfigUsed ==
  (Configured /\ isFile(INPUTS[1]) /\ aliasConfig # Null) =>
    (configDirs # {} /\ dirname(aliasConfig.from) = nearest(configDirs))

NoDepsKeepsSeeds ==
  ~deps =>
    /\ scans = << >>
    /\ resolutions = << >>
    /\ Started => (queue = seeds /\ visited = seedVisited(seeds))
    /\ pc = "done" => bundled = seedVisited(seeds)

ImportOfSeedNotFollowed ==
  /\ ~deps
  /\ pc = "done"
  /\ INPUTS = <<fileC>>
  /\ bundled = {fileC}
  /\ \E k \in 1..Len(content[fileC]) :
       enqueueGuard(resolveSpec(fileC, content[fileC][k]).target, bundled)

(* ------------------------------------------------------------------ *)
(* Properties of the walker: ignored directories                      *)
(* ------------------------------------------------------------------ *)
(* path d, below the walk root, is ignored by the rules merged on the   *)
(* way from the walk root down to its directory                          *)
ignoredBelow(start, d) ==
  isIgnored(d, inherited(start, dirname(d), {}), projectRoot)

(* C22: a child is checked against the merged rules before the walker   *)
(* recurses into it: no ignored path and nothing beneath an ignored      *)
(* directory is handed to statSync, read or listed, and no file at or    *)
(* under an ignored path is returned.                                    *)
NothingBeneathIgnored ==
  pc = "walked" =>
    \A t \in touched \cup Range(queue) :
      \A j \in (Len(INPUTS[1]) + 1)..Len(t) :
        ~ignoredBelow(INPUTS[1], SubSeq(t, 1, j))

IgnoredDirectoryNotEntered ==
  /\ pc = "walked"
  /\ INPUTS = <<dirP>>
  /\ ignoredBelow(dirP, dirFooDist)
  /\ dirFoo \in touched
  /\ dirFooDist \notin touched
  /\ fooZ \notin touched \cup Range(queue)

(* ------------------------------------------------------------------ *)
(* Properties of the extension lookup                                 *)
(* ------------------------------------------------------------------ *)
(* extension b is a proper ending of extension a, as .erb is of .html.erb *)
properSuffix(b, a) ==
  /\ Len(b) < Len(a)
  /\ Head(b) = ""
  /\ SubSeq(a, Len(a) - Len(b) + 2, Len(a)) = Tail(b)

(* C23: when the file name ends with two extensions of the registry, one *)
(* a proper ending of the other, the lookup selects the longer one,       *)
(* whatever the order of the registry.                                    *)
CompositeExtensionSelected ==
  pc = "looked" =>
    \A a, b \in Range(registry) :
      (/\ properSuffix(b, a)
       /\ endsWith(INPUTS[1], a)
       /\ endsWith(INPUTS[1], b))
        => ext = a

(* ------------------------------------------------------------------ *)
(* Properties of the Python resolver                                  *)
(* ------------------------------------------------------------------ *)
(* the module file that a relative import of m.py names: n leading dots *)
(* stand for the directory n-1 levels above the directory of m.py        *)
importedModule ==
  LET spec == content[mPy][1]
  IN plusExt(upDirs(dirname(mPy), spec.up - 1) \o dotsToSlashes(spec.segs), PY)

(* C24: a relative import with n leading dots is resolved against the   *)
(* directory n-1 levels above the importing file's directory: at the end *)
(* of a run seeded with m.py alone the visited files are m.py and the    *)
(* module file in that directory, if there is one.                       *)
RelativeImportLevels ==
  (pc = "done" /\ seeds = <<mPy>>) =>
    visited = {mPy} \cup ({importedModule} \cap Files)

(* ------------------------------------------------------------------ *)
(* Properties of the completed run                                    *)
(* ------------------------------------------------------------------ *)
(* every regular file that a specifier of a visited file with a scanner  *)
(* resolves to and that the exclude test lets pass is visited            *)
closedUnderResolution ==
  \A f \in visited \cap DOMAIN content :
    hasScanner(f) =>
      \A k \in 1..Len(content[f]) :
        LET t == resolveSpec(f, content[f][k]).target
        IN (/\ t.tag = "path"
            /\ existsSync(t.path) /\ isFile(t.path)
            /\ ~IGNORE_test(AbsStr(t.path)))
             => t.path \in visited

(* C25: at the end of every run the visited set is closed under          *)
(* resolution.                                                           *)
VisitedClosedUnderResolution == pc = "done" => closedUnderResolution

(* C25, amended: at the end of a run that follows dependencies the       *)
(* visited set is closed under resolution; with --no-deps it is the set   *)
(* of recognized seeds, closed or not.                                    *)
VisitedClosedWhenDepsFollowed ==
  pc = "done" =>
    /\ deps => closedUnderResolution
    /\ ~deps => visited = seedVisited(seeds)

DependencyOfDependencyVisited ==
  /\ pc = "done"
  /\ deps
  /\ seeds = <<fileC>>
  /\ content[fileC] = <<SpecUpB>> /\ content[fileB] = <<SpecA>>
  /\ visited = {fileC, fileB, fileA}

(* C27: in every state every visited file has an extension of the        *)
(* registry, that is, a scanner: at the seeding and after every enqueue   *)
(* of a resolved dependency.                                              *)
VisitedFilesRecognized == \A f \in visited : hasScanner(f)

(* C28: the rendered output depends only on the final visited set: the   *)
(* tree written at the end of a run is the tree of the visited files     *)
(* taken in their sorted order, the order in which the bundle lists      *)
(* them, whatever the order of enumeration and discovery was.            *)
OutputDependsOnVisitedOnly ==
  pc = "done" => tree = makeTree(relativeAll(sort(visited)))

(* C21: scan_dependencies honours its exclude parameter: no entry that   *)
(* it reports as a resolved dependency has a resolved path that the      *)
(* exclude pattern matches.                                              *)
ScanHonoursExclude ==
  (mode = "scan" /\ pc = "done") =>
    \A k \in 1..Len(dependencies) :
      dependencies[k].exists => ~IGNORE_test(AbsStr(dependencies[k].resolved.path))

(* the walker, walking the directory of file t, returns t *)
walkerAccepts(t) == t \in Range(walk(dirname(t), projectRoot, listing))

(* C26: the exclude pattern gives one verdict for a file however the     *)
(* file is met: a resolved dependency that is a regular file and that    *)
(* the walker accepts when its directory is walked is in the visited     *)
(* set after the scan that resolved it, whatever the names of the        *)
(* directories above the project root are.                               *)
ExcludeVerdictSameForDependency ==
  pc \in {"bfs", "done"} =>
    \A k \in 1..Len(resolutions) :
      LET t == resolutions[k].target
      IN (mode # "scan" /\ t.tag = "path" /\ existsSync(t.path) /\ isFile(t.path)
            /\ walkerAccepts(t.path))
           => t.path \in visited

(* C29: for the same inputs, exclude pattern and filesystem,             *)
(* analyze_codebase ends with the set of files that the command-line     *)
(* script ended with.                                                    *)
ServerDiscoversWhatScriptDiscovers ==
  (mode = "analyze" /\ pc = "done") => visited = cliVisited

(* C30: after alias loading, a loaded aliasConfig comes with the         *)
(* directory of the file it was read from as configBasePath.             *)
ConfigBasePathIsDirOfConfig ==
  (Configured /\ aliasConfig # Null) => configBasePath = dirname(aliasConfig.from)

====
